---- MODULE Spec2Model ----
(***************************************************************************)
(* Model of the llm-gateway (src/app.py): the RateLimiter ("governor"),    *)
(* the provider selection of get_api_provider and the request handler      *)
(* handle_post_request with its two dispatch modes.                        *)
(*                                                                         *)
(* Time is the wall clock read by datetime.now(), counted in minutes.      *)
(* Every RateLimiter method runs under self.lock and is one atomic step.   *)
(* Request handlers are coroutines of one event loop: a handler runs       *)
(* without interruption by another handler between two awaits, while the   *)
(* scheduler's jobs run on their own threads and interleave anywhere.      *)
(***************************************************************************)
EXTENDS Integers, Sequences, FiniteSets, TLC

\* ---------------------------------------------------------------- bounds
MaxReq == 2
MaxTime == 2
\* the most chunks an upstream streams in one response
MaxChunks == 2

\* ------------------------------------------------------ program constants
\* timedelta(minutes=1): the age beyond which a window entry is popped
WindowMinutes == 1
\* minutes of penalty per recorded error
PenaltyPerError == 10
\* the cap of the penalty, 24 * 60 minutes
MaxPenalty == 1440
\* timedelta(hours=24), in minutes: the horizon of the error ledger
ErrorHorizon == 1440

\* ------------------------------------------------------------ configuration
Providers == {"p1", "p2"}

\* The request handlers that may be in flight at once
Requests == {1, 2}

\* the values token_count takes
Tokens == {1, 2}

\* the advances of the wall clock, in minutes
TickSteps == {1}

\* config['api_provider']["p1"]['limits']: a dict whose keys are a subset of
\* rpm, tpm, tpr, rpd
LimitConfigs ==
    { ("rpm" :> 1),
      ("tpm" :> 3),
      ("rpm" :> 1) @@ ("tpm" :> 3) @@ ("tpr" :> 1) @@ ("rpd" :> 1) }

\* config['api_provider']["p2"]['limits']
FallbackLimits == ("rpm" :> 1)

\* config['model_config']: model -> ordered bindings (provider, enable)
MODEL_CONFIG ==
    ("S" :> << [provider |-> "p1", enable |-> TRUE] >>) @@
    ("A" :> << [provider |-> "p1", enable |-> TRUE],
               [provider |-> "p2", enable |-> TRUE] >>) @@
    ("B" :> << [provider |-> "p1", enable |-> FALSE],
               [provider |-> "p2", enable |-> TRUE] >>) @@
    ("D" :> << [provider |-> "p1", enable |-> FALSE] >>)

\* the order of `for model in MODEL_CONFIG`
ModelOrder == << "S", "A", "B", "D" >>

\* the values of request_body.get("model", "")
RequestModels == {"A", "nope"}

VARIABLES
    now,             \* datetime.now()
    API_PROVIDER,    \* provider -> limits, loaded at start-up
    counters,        \* rate_limiter.counters
    error_counters,  \* rate_limiter.error_counters
    loop,            \* the request whose handler holds the event loop, or 0
    arrived,         \* the number of requests received so far
    reason,          \* the reason returned by the last check_limit
    status,          \* the HTTP status of the last answer, or 0
    pc,              \* request -> position of its handler
    req,             \* request -> [model, token_count] of its body
    idx,             \* request -> position in api_providers of get_api_provider
    model,           \* request -> the handler's variable model
    api_provider,    \* request -> the selected provider, or ""
    committed,       \* history: provider -> the (time, tokens) of every
                     \* increment since the last reset_all_limits
    committed_today, \* history: provider -> the number of increments since
                     \* the last reset of the daily count
    recorded,        \* history: provider -> the times of every
                     \* increment_error since the last reset_all_limits
    stream,          \* request -> the streaming response of its handler
    headers          \* request -> the headers its handler reads and sends

vars == << now, API_PROVIDER, counters, error_counters, loop, arrived, reason,
           status, pc, req, model, idx, api_provider, committed, committed_today,
           recorded, stream, headers >>

\* ------------------------------------------------------------- helpers
Min(a, b) == IF a < b THEN a ELSE b

RECURSIVE SumRange(_, _, _)
\* the sum of the second components of s[lo..hi], by halving
SumRange(s, lo, hi) ==
    IF lo > hi THEN 0
    ELSE IF lo = hi THEN s[lo][2]
    ELSE LET mid == (lo + hi) \div 2
         IN  SumRange(s, lo, mid) + SumRange(s, mid + 1, hi)

\* sum(x for _, x in entries)
SumSecond(s) == SumRange(s, 1, Len(s))

\* max(timestamp for timestamp, _ in entries), entries non-empty
MaxFirst(s) ==
    CHOOSE x \in { s[i][1] : i \in DOMAIN s } : \A i \in DOMAIN s : s[i][1] <= x

\* the entry check_limit creates for an unknown provider
EmptyCounter == [rpm |-> << >>, tpm |-> << >>, rpd |-> 0]

RECURSIVE PopExpired(_, _)
\* while q and (now - q[0][0]) > timedelta(minutes=1): q.popleft()
PopExpired(q, t) ==
    IF q # << >> /\ (t - q[1][1]) > WindowMinutes
    THEN PopExpired(Tail(q), t)
    ELSE q

\* ------------------------------------------------ RateLimiter.check_limit
\* if api_provider not in self.counters: self.counters[api_provider] = {...}
EnsureCounter(cs, p) ==
    IF p \in DOMAIN cs THEN cs ELSE cs @@ (p :> EmptyCounter)

\* the two popleft loops of check_limit
PruneWindows(c, t) ==
    [c EXCEPT !.rpm = PopExpired(@, t), !.tpm = PopExpired(@, t)]

\* the rpm test with the comparison off by one: len(...) > limits['rpm']
RpmExceededStrict(c, limits) ==
    "rpm" \in DOMAIN limits /\ Len(c.rpm) > limits["rpm"]

\* 'rpm' in limits and len(counters['rpm']) >= limits['rpm']
RpmExceeded(c, limits) ==
    "rpm" \in DOMAIN limits /\ Len(c.rpm) >= limits["rpm"]

\* the tpm test with the comparison off by one: ... >= limits['tpm']
TpmExceededEager(c, limits, token_count) ==
    "tpm" \in DOMAIN limits /\ SumSecond(c.tpm) + token_count >= limits["tpm"]

\* 'tpm' in limits and current_tpm + token_count > limits['tpm']
TpmExceeded(c, limits, token_count) ==
    "tpm" \in DOMAIN limits /\ SumSecond(c.tpm) + token_count > limits["tpm"]

\* check_limit without its tpr test
TprExceededNever(limits, token_count) == FALSE

\* 'tpr' in limits and token_count > limits['tpr']
TprExceeded(limits, token_count) ==
    "tpr" \in DOMAIN limits /\ token_count > limits["tpr"]

\* the rpd test with the comparison off by one: counters['rpd'] > limits['rpd']
RpdExceededStrict(c, limits) ==
    "rpd" \in DOMAIN limits /\ c.rpd > limits["rpd"]

\* 'rpd' in limits and counters['rpd'] >= limits['rpd']
RpdExceeded(c, limits) ==
    "rpd" \in DOMAIN limits /\ c.rpd >= limits["rpd"]

\* a check_limit that books the request it examines into the rpm window
CheckLimitCountersBooking(cs, p, t) ==
    LET c0 == EnsureCounter(cs, p)
    IN  [c0 EXCEPT ![p] = [PruneWindows(@, t) EXCEPT
                              !.rpm = Append(@, << t, 1 >>)]]

\* The counters check_limit leaves behind: the entry created, the windows pruned
CheckLimitCounters(cs, p, t) ==
    LET c0 == EnsureCounter(cs, p)
    IN  [c0 EXCEPT ![p] = PruneWindows(@, t)]

\* check_limit(api_provider, limits, token_count) at time t on counters cs:
\* the counters it leaves and the pair it returns. The reason of the TPR
\* rejection is the fixed prefix of the formatted message.
check_limit(cs, p, limits, token_count, t) ==
    LET cs1 == CheckLimitCounters(cs, p, t)
        c   == cs1[p]
        ret == IF RpmExceeded(c, limits)
                  THEN << FALSE, "RPM limit exceeded" >>
               ELSE IF TpmExceeded(c, limits, token_count)
                  THEN << FALSE, "TPM limit exceeded" >>
               ELSE IF TprExceeded(limits, token_count)
                  THEN << FALSE, "Token per request limit exceeded" >>
               ELSE IF RpdExceeded(c, limits)
                  THEN << FALSE, "RPD limit exceeded" >>
               ELSE << TRUE, "" >>
    IN  [counters |-> cs1, allowed |-> ret[1], reason |-> ret[2]]

\* an increment that books the request twice
increment_twice(cs, p, token_count, t) ==
    [cs EXCEPT ![p] = [rpm |-> Append(Append(@.rpm, << t, 1 >>), << t, 1 >>),
                       tpm |-> Append(Append(@.tpm, << t, token_count >>),
                                      << t, token_count >>),
                       rpd |-> @.rpd + 2]]

\* an increment that books one token whatever token_count is
increment_one_token(cs, p, token_count, t) ==
    [cs EXCEPT ![p] = [rpm |-> Append(@.rpm, << t, 1 >>),
                       tpm |-> Append(@.tpm, << t, 1 >>),
                       rpd |-> @.rpd + 1]]

\* ------------------------------------------------- RateLimiter.increment
\* appends (now, 1) and (now, token_count) and counts the day's request.
\* self.counters[api_provider] raises KeyError when the entry is missing.
increment(cs, p, token_count, t) ==
    [cs EXCEPT ![p] = [rpm |-> Append(@.rpm, << t, 1 >>),
                       tpm |-> Append(@.tpm, << t, token_count >>),
                       rpd |-> @.rpd + 1]]

\* ---------------------------------------- RateLimiter.reset_daily_counts
\* a daily reset that also empties the windows
reset_daily_counts_wiping(cs) ==
    [p \in DOMAIN cs |-> EmptyCounter]

\* sets rpd to 0 for every provider of self.counters
reset_daily_counts(cs) ==
    [p \in DOMAIN cs |-> [cs[p] EXCEPT !.rpd = 0]]

\* ------------------------------------------ RateLimiter.reset_all_limits
\* a reset that forgets the providers: self.counters = {}
ResetCountersForgetting(cs) == [p \in {} |-> EmptyCounter]

\* a reset of the windows that keeps the day counts
ResetCountersKeepingDay(cs) ==
    [p \in DOMAIN cs |-> [EmptyCounter EXCEPT !.rpd = cs[p].rpd]]

\* every known provider gets fresh windows and a zero day count
ResetCounters(cs) ==
    [p \in DOMAIN cs |-> EmptyCounter]

\* ------------------------------------------------ the error ledger
\* [(timestamp, count) for ... if timestamp > cutoff_time], cutoff = now - 24h
PruneErrors(l, t) ==
    SelectSeq(l, LAMBDA e : e[1] > t - ErrorHorizon)

\* RateLimiter.increment_error: create, prune, append (now, 1)
increment_error(ec, p, t) ==
    LET ec0 == IF p \in DOMAIN ec THEN ec ELSE ec @@ (p :> << >>)
    IN  [ec0 EXCEPT ![p] = Append(PruneErrors(@, t), << t, 1 >>)]

\* a penalty that does not grow with the number of errors
LimitDurationFlat(current_error_count) == PenaltyPerError

\* limit_duration = min(current_error_count * 10, 24 * 60)
LimitDuration(current_error_count) ==
    Min(current_error_count * PenaltyPerError, MaxPenalty)

\* the comparison off by one: now <= limit_end_time
StillLimitedInclusive(t, limit_end_time) ==
    t <= limit_end_time

\* now < limit_end_time
StillLimited(t, limit_end_time) ==
    t < limit_end_time

\* RateLimiter.is_error_limited at time t: the ledgers it leaves and the
\* pair (limited, remaining minutes) it returns
is_error_limited(ec, p, t) ==
    IF p \notin DOMAIN ec \/ ec[p] = << >>
    THEN [error_counters |-> ec, limited |-> FALSE, remaining |-> 0]
    ELSE LET l   == PruneErrors(ec[p], t)
             ec1 == [ec EXCEPT ![p] = l]
         IN  IF l = << >>
             THEN [error_counters |-> ec1, limited |-> FALSE, remaining |-> 0]
             ELSE LET current_error_count == SumSecond(l)
                      latest_error_time   == MaxFirst(l)
                      limit_end_time      ==
                          latest_error_time + LimitDuration(current_error_count)
                  IN  IF StillLimited(t, limit_end_time)
                      THEN [error_counters |-> ec1, limited |-> TRUE,
                            remaining |-> limit_end_time - t]
                      ELSE [error_counters |-> ec1, limited |-> FALSE,
                            remaining |-> 0]

\* a cleanup that drops every ledger, expired or not
cleanup_error_counters_wiping(ec, t) == [p \in {} |-> << >>]

\* RateLimiter.cleanup_error_counters: prune every ledger, delete the empty
cleanup_error_counters(ec, t) ==
    LET kept == { p \in DOMAIN ec : PruneErrors(ec[p], t) # << >> }
    IN  [p \in kept |-> PruneErrors(ec[p], t)]

\* a get_usage_stats that also clears the day counts it reports
UsageCountersClearing(cs, t) ==
    [p \in DOMAIN cs |-> [PruneWindows(cs[p], t) EXCEPT !.rpd = 0]]

\* RateLimiter.get_usage_stats at time t: the counters it leaves (windows
\* pruned) and the 'current' values it reports for every known provider
UsageCounters(cs, t) ==
    [p \in DOMAIN cs |-> PruneWindows(cs[p], t)]

get_usage_stats(cs, t) ==
    [p \in DOMAIN cs |->
        LET c == PruneWindows(cs[p], t)
        IN  [rpm |-> Len(c.rpm), tpm |-> SumSecond(c.tpm), rpd |-> c.rpd]]


\* ------------------------------------------------------------ the state
\* the request bodies: request_body.get("model", "") and the token count of
\* the messages. request_body.get("stream", False) is not looked at before
\* the dispatch and is drawn there
Bodies == [model : RequestModels, token_count : Tokens]

NoBody == [model |-> "", token_count |-> 0]

\* a handler that has no streaming response: the status code of the
\* StreamingResponse, the value of the ContextVar response_status, the status
\* the upstream answered with, the chunks the upstream sends in all, those it
\* has still to send, those yielded to the client, and how the generator ended
NoStream ==
    [client_status |-> 0, response_status |-> 0, up_status |-> 0,
     body |-> << >>, pending |-> << >>, delivered |-> << >>, outcome |-> ""]

\* a handler that has read no request: the inbound headers (request.headers,
\* a mapping from lower-case names to values), the api_key of the provider it
\* was given, and the request_headers it passes to httpx, if it has
NoHeaders ==
    [inbound |-> << >>, api_key |-> "", outbound |-> << >>, sent |-> FALSE]

Init ==
    /\ now = 0
    /\ API_PROVIDER \in { ("p1" :> l) @@ ("p2" :> FallbackLimits) : l \in LimitConfigs }
    /\ counters = [p \in {} |-> EmptyCounter]
    /\ error_counters = [p \in {} |-> << >>]
    /\ loop = 0
    /\ arrived = 0
    /\ reason = ""
    /\ pc = [r \in Requests |-> "idle"]
    /\ req = [r \in Requests |-> NoBody]
    /\ model = [r \in Requests |-> ""]
    /\ idx = [r \in Requests |-> 0]
    /\ api_provider = [r \in Requests |-> ""]
    /\ status = 0
    /\ committed = [p \in Providers |-> << >>]
    /\ committed_today = [p \in Providers |-> 0]
    /\ recorded = [p \in Providers |-> << >>]
    /\ stream = [r \in Requests |-> NoStream]
    /\ headers = [r \in Requests |-> NoHeaders]

\* the history variables
history == << committed, committed_today, recorded >>

\* the variables of the governor and of the configuration
gov == << API_PROVIDER, counters, error_counters, history >>

\* the locals of the request handlers
locals == << pc, req, model, idx, api_provider, stream, headers >>

\* handlers run on threads of their own (a plain `def` endpoint): any handler
\* may take a step at any time
CanRunThreaded(r) == TRUE

\* ------------------------------------------------------- the event loop
\* handle_post_request is a coroutine (async def) and get_api_provider a
\* plain function without await: the handler of r runs when no other
\* handler holds the loop, and keeps it until its next await
CanRun(r) == loop \in {0, r}

\* list(MODEL_CONFIG[model].keys())[i]
Binding(m, i) == MODEL_CONFIG[m][i]

\* a get_api_provider that does not look at 'enable'
NextEnabledAny(m, i) == IF i <= Len(MODEL_CONFIG[m]) THEN i ELSE 0

\* the next binding at or after i that is not skipped as disabled, 0 if none:
\* `if MODEL_CONFIG[model][api_provider].get('enable', True) is False: continue`
NextEnabled(m, i) ==
    LET js == { j \in i..Len(MODEL_CONFIG[m]) : Binding(m, j).enable }
    IN  IF js = {} THEN 0 ELSE CHOOSE j \in js : \A k \in js : j <= k

\* the provider the loop of get_api_provider is at
Candidate(r) == Binding(model[r], idx[r]).provider

\* a handler that sends a model it does not know to the first model
FirstModelDefaulting(m) ==
    IF m \in DOMAIN MODEL_CONFIG THEN m ELSE ModelOrder[1]

\* a handler that treats a body without a model like a request for "auto"
FirstModelOrAuto(m) == IF m \in {"auto", ""} THEN ModelOrder[1] ELSE m

\* the model get_api_provider is first called with: the named model, or for
\* "auto" the first model of MODEL_CONFIG (`for model in MODEL_CONFIG`)
FirstModel(m) == IF m = "auto" THEN ModelOrder[1] ELSE m

\* the handler of r answers with status code and its locals are gone
Answer(r, code) ==
    /\ pc' = [pc EXCEPT ![r] = "idle"]
    /\ status' = code
    /\ req' = [req EXCEPT ![r] = NoBody]
    /\ model' = [model EXCEPT ![r] = ""]
    /\ idx' = [idx EXCEPT ![r] = 0]
    /\ api_provider' = [api_provider EXCEPT ![r] = ""]
    /\ loop' = 0

\* the handler of r moves to position l and keeps the event loop
Goto(r, l) ==
    /\ pc' = [pc EXCEPT ![r] = l]
    /\ loop' = r
    /\ UNCHANGED << status, req, model, idx, api_provider >>

\* a get_api_provider that gives up at the first binding that does not admit
ContinueGivingUp(r) == Answer(r, 429)

\* `continue` in the loop of get_api_provider for request r: go on with the
\* next enabled binding, or leave the loop with nothing selected and raise
\* HTTPException(429), which handle_post_request re-raises
Continue(r) ==
    LET j == NextEnabled(model[r], idx[r] + 1)
    IN  IF j = 0
        THEN Answer(r, 429)
        ELSE /\ pc' = [pc EXCEPT ![r] = "err"]
             /\ idx' = [idx EXCEPT ![r] = j]
             /\ loop' = r
             /\ UNCHANGED << status, req, model, api_provider >>

\* ------------------------------------------------------------ the actions
\* handle_post_request from `await request.json()` returning body b to the
\* first binding of get_api_provider: 404 for a model that is not
\* configured, 429 when no binding is enabled
Select(r, b) ==
    /\ pc[r] = "idle"
    /\ \A q \in Requests : q < r => pc[q] # "idle"
    /\ arrived < MaxReq
    /\ CanRun(r)
    /\ arrived' = arrived + 1
    /\ LET m == FirstModel(b.model)
       IN  IF m \notin DOMAIN MODEL_CONFIG
           THEN Answer(r, 404)
           ELSE LET j == NextEnabled(m, 1)
                IN  IF j = 0
                    THEN Answer(r, 429)
                    ELSE /\ pc' = [pc EXCEPT ![r] = "err"]
                         /\ req' = [req EXCEPT ![r] = b]
                         /\ model' = [model EXCEPT ![r] = m]
                         /\ idx' = [idx EXCEPT ![r] = j]
                         /\ UNCHANGED << status, api_provider >>
                         /\ loop' = r
    /\ UNCHANGED << now, stream, headers, gov, reason >>

\* a get_api_provider that does not act on the answer of is_error_limited
SkipLimitedNever(res) == FALSE

\* a get_api_provider with the test of is_error_limited turned round
SkipLimitedInverted(res) == ~res.limited

\* `if is_error_limited: ... continue`
SkipLimited(res) == res.limited

\* rate_limiter.is_error_limited(api_provider) and the `continue` on limited
ErrorCheck(r) ==
    /\ pc[r] = "err"
    /\ CanRun(r)
    /\ LET res == is_error_limited(error_counters, Candidate(r), now)
       IN  /\ error_counters' = res.error_counters
           /\ IF SkipLimited(res) THEN Continue(r) ELSE Goto(r, "chk")
    /\ UNCHANGED << now, stream, headers, API_PROVIDER, counters, history, arrived, reason >>

\* rate_limiter.check_limit(api_provider, limits, token_count) and the
\* `continue` on a rejection, whose reason is logged
CheckLimit(r) ==
    /\ pc[r] = "chk"
    /\ CanRun(r)
    /\ LET p   == Candidate(r)
           res == check_limit(counters, p, API_PROVIDER[p], req[r].token_count, now)
       IN  /\ counters' = res.counters
           /\ reason' = res.reason
           /\ IF res.allowed THEN Goto(r, "inc") ELSE Continue(r)
    /\ UNCHANGED << now, stream, headers, API_PROVIDER, error_counters, history, arrived >>

\* rate_limiter.increment(api_provider, token_count); selected_api is set and
\* the handler goes on to await the upstream. A missing counter entry is a
\* KeyError, answered 500 by handle_post_request
Increment(r) ==
    /\ pc[r] = "inc"
    /\ CanRun(r)
    /\ LET p == Candidate(r)
       IN  IF p \in DOMAIN counters
           THEN /\ counters' = increment(counters, p, req[r].token_count, now)
                /\ committed' = [committed EXCEPT
                      ![p] = Append(@, << now, req[r].token_count >>)]
                /\ committed_today' = [committed_today EXCEPT ![p] = @ + 1]
                /\ api_provider' = [api_provider EXCEPT ![r] = p]
                /\ pc' = [pc EXCEPT ![r] = "dispatch"]
                /\ loop' = 0
                /\ UNCHANGED << status, req, model, idx >>
           ELSE /\ UNCHANGED << counters, committed, committed_today >>
                /\ Answer(r, 500)
    /\ UNCHANGED << now, stream, headers, API_PROVIDER, error_counters, recorded, arrived, reason >>

\* the status codes an upstream answers with
UpstreamStatuses == {200, 429}

\* response_status = ContextVar("response_status", default=200), read by
\* StreamingResponse(..., status_code=response_status.get()) before the
\* generator has run
StreamingStatus == 200

\* a buffered dispatch that goes back to the selection, to the next binding,
\* when the upstream answers >= 400
BufferedFailingOver(r, up) ==
    /\ pc[r] = "dispatch"
    /\ CanRun(r)
    /\ IF up >= 400
       THEN /\ Continue(r)
            /\ UNCHANGED api_provider
       ELSE Answer(r, up)
    /\ UNCHANGED << now, stream, headers, gov, arrived, reason >>

\* handle_non_streaming_request: the upstream answered with status up; the
\* client gets Response(status_code=response.status_code). raise_for_status
\* is commented out, so the HTTPStatusError handler never runs
Buffered(r, up) ==
    /\ pc[r] = "dispatch"
    /\ CanRun(r)
    /\ Answer(r, up)
    /\ UNCHANGED << now, stream, headers, gov, arrived, reason >>

\* handle_non_streaming_request: client.post raised (transport error, timeout)
BufferedException(r) ==
    /\ pc[r] = "dispatch"
    /\ CanRun(r)
    /\ Answer(r, 500)
    /\ UNCHANGED << now, stream, headers, gov, arrived, reason >>

\* generate_stream_response: the upstream answered >= 400; the error is
\* recorded and the envelope is the only chunk
StreamUpstreamError(r) ==
    /\ pc[r] = "dispatch"
    /\ CanRun(r)
    /\ error_counters' = increment_error(error_counters, api_provider[r], now)
    /\ recorded' = [recorded EXCEPT ![api_provider[r]] = Append(@, now)]
    /\ Answer(r, StreamingStatus)
    /\ UNCHANGED << now, stream, headers, API_PROVIDER, counters, committed, committed_today,
                    arrived, reason >>

\* generate_stream_response: the upstream answered < 400 and the stream ran
\* to its end, or an exception ended it; neither touches the governor
StreamEnd(r) ==
    /\ pc[r] = "dispatch"
    /\ CanRun(r)
    /\ Answer(r, StreamingStatus)
    /\ UNCHANGED << now, stream, headers, gov, arrived, reason >>

\* the scheduler's cron job, on the scheduler's thread
ResetDailyCounts ==
    /\ counters' = reset_daily_counts(counters)
    /\ committed_today' = [p \in Providers |-> 0]
    /\ UNCHANGED << now, API_PROVIDER, error_counters, committed, recorded, loop,
                    arrived, reason, status, locals >>

\* the scheduler's interval job, on the scheduler's thread
CleanupErrorCounters ==
    /\ error_counters' = cleanup_error_counters(error_counters, now)
    /\ UNCHANGED << now, API_PROVIDER, counters, history, loop, arrived,
                    reason, status, locals >>

\* POST /api/reset_rate_limits: a coroutine of the event loop
ResetAllLimits ==
    /\ loop = 0
    /\ counters' = ResetCounters(counters)
    /\ error_counters' = [p \in {} |-> << >>]
    /\ committed' = [p \in Providers |-> << >>]
    /\ committed_today' = [p \in Providers |-> 0]
    /\ recorded' = [p \in Providers |-> << >>]
    /\ UNCHANGED << now, API_PROVIDER, loop, arrived, reason, status, locals >>

\* GET /api_usage: a coroutine of the event loop; get_usage_stats prunes
GetUsageStats ==
    /\ loop = 0
    /\ counters' = UsageCounters(counters, now)
    /\ UNCHANGED << now, API_PROVIDER, error_counters, history, loop, arrived,
                    reason, status, locals >>

\* the wall clock advances
Tick(d) ==
    /\ now + d <= MaxTime
    /\ now' = now + d
    /\ UNCHANGED << gov, loop, arrived, reason, status, locals >>

Next ==
    \/ \E r \in Requests, b \in Bodies : Select(r, b)
    \/ \E r \in Requests : ErrorCheck(r)
    \/ \E r \in Requests : CheckLimit(r)
    \/ \E r \in Requests : Increment(r)
    \/ \E r \in Requests, up \in UpstreamStatuses : Buffered(r, up)
    \/ \E r \in Requests : BufferedException(r)
    \/ \E r \in Requests : StreamUpstreamError(r)
    \/ \E r \in Requests : StreamEnd(r)
    \/ ResetDailyCounts
    \/ CleanupErrorCounters
    \/ ResetAllLimits
    \/ GetUsageStats
    \/ \E d \in TickSteps : Tick(d)

Spec == Init /\ [][Next]_vars

\* ------------------------------------------ methods as the atomic steps
\* The same program with reset_all_limits called at any moment, also while a
\* handler is between two methods of the RateLimiter: the lock alone orders
\* the methods.

\* rate_limiter.reset_all_limits() under self.lock, whoever holds the loop
ResetAllLimitsAnytime ==
    /\ counters' = ResetCounters(counters)
    /\ error_counters' = [p \in {} |-> << >>]
    /\ committed' = [p \in Providers |-> << >>]
    /\ committed_today' = [p \in Providers |-> 0]
    /\ recorded' = [p \in Providers |-> << >>]
    /\ UNCHANGED << now, API_PROVIDER, loop, arrived, reason, status, locals >>

NextLock ==
    \/ \E r \in Requests, b \in Bodies : Select(r, b)
    \/ \E r \in Requests : ErrorCheck(r)
    \/ \E r \in Requests : CheckLimit(r)
    \/ \E r \in Requests : Increment(r)
    \/ \E r \in Requests, up \in UpstreamStatuses : Buffered(r, up)
    \/ \E r \in Requests : BufferedException(r)
    \/ \E r \in Requests : StreamUpstreamError(r)
    \/ \E r \in Requests : StreamEnd(r)
    \/ ResetDailyCounts
    \/ CleanupErrorCounters
    \/ ResetAllLimitsAnytime
    \/ GetUsageStats
    \/ \E d \in TickSteps : Tick(d)

SpecLock == Init /\ [][NextLock]_vars

\* ------------------------------------------------- selection by model
\* The same program, with requests that name a model with two enabled
\* bindings, a model whose first binding is disabled, a model with no enabled
\* binding, or "auto", or that have no model at all.

\* the values of request_body.get("model", "") in these requests; "" is what
\* a body without a `model` field gives
SelModels == {"A", "B", "D", "auto", ""}

SelBodies == [model : SelModels, token_count : {1}]

NextSel ==
    \/ \E r \in Requests, b \in SelBodies : Select(r, b)
    \/ \E r \in Requests : ErrorCheck(r)
    \/ \E r \in Requests : CheckLimit(r)
    \/ \E r \in Requests : Increment(r)
    \/ \E r \in Requests, up \in UpstreamStatuses : Buffered(r, up)
    \/ \E r \in Requests : BufferedException(r)
    \/ \E r \in Requests : StreamUpstreamError(r)
    \/ \E r \in Requests : StreamEnd(r)
    \/ ResetDailyCounts
    \/ CleanupErrorCounters
    \/ ResetAllLimits
    \/ GetUsageStats
    \/ \E d \in TickSteps : Tick(d)

SpecSel == Init /\ [][NextSel]_vars

\* --------------------------------------------- the error ledger over days
\* The governor's error methods driven directly, over instants that lie around
\* the ends of the penalties and around the 24-hour horizon.

\* the instants, in minutes, at which the clock is read
ErrInstants == {0, 1, 9, 10, 11, 20, 21, 1430, 1431, 1439, 1440, 1441, 1450}

\* the ledger after n calls of increment_error at minute 0
Burst(n) == [i \in 1..n |-> << 0, 1 >>]

\* the sizes of the burst of errors the first provider starts with: none, or
\* one short of the 144 errors at which the penalty reaches its cap
BurstSizes == {0, 143}

InitErr ==
    /\ now = 0
    /\ API_PROVIDER = ("p1" :> FallbackLimits) @@ ("p2" :> FallbackLimits)
    /\ counters = [p \in {} |-> EmptyCounter]
    /\ \E n \in BurstSizes :
          /\ error_counters =
                IF n = 0 THEN [p \in {} |-> << >>] ELSE ("p1" :> Burst(n))
          /\ recorded = [p \in Providers |->
                IF p = "p1" THEN [i \in 1..n |-> 0] ELSE << >>]
    /\ loop = 0
    /\ arrived = 0
    /\ reason = ""
    /\ pc = [r \in Requests |-> "idle"]
    /\ req = [r \in Requests |-> NoBody]
    /\ model = [r \in Requests |-> ""]
    /\ idx = [r \in Requests |-> 0]
    /\ api_provider = [r \in Requests |-> ""]
    /\ status = 0
    /\ committed = [p \in Providers |-> << >>]
    /\ committed_today = [p \in Providers |-> 0]
    /\ stream = [r \in Requests |-> NoStream]
    /\ headers = [r \in Requests |-> NoHeaders]

\* a streamed request to p ends in an upstream error: increment_error(p)
RecordError(p) ==
    /\ arrived < MaxReq
    /\ arrived' = arrived + 1
    /\ error_counters' = increment_error(error_counters, p, now)
    /\ recorded' = [recorded EXCEPT ![p] = Append(@, now)]
    /\ UNCHANGED << now, API_PROVIDER, counters, committed, committed_today,
                    loop, reason, status, locals >>

\* is_error_limited(p) is called, as get_api_provider does for a candidate:
\* the ledger of p is left pruned
ProbeError(p) ==
    /\ error_counters' = is_error_limited(error_counters, p, now).error_counters
    /\ UNCHANGED << now, API_PROVIDER, counters, history, loop, arrived, reason,
                    status, locals >>

\* the wall clock is next read at the later instant t
AdvanceTo(t) ==
    /\ t > now
    /\ now' = t
    /\ UNCHANGED << gov, loop, arrived, reason, status, locals >>

NextErr ==
    \/ \E p \in Providers : RecordError(p)
    \/ \E p \in Providers : ProbeError(p)
    \/ CleanupErrorCounters
    \/ ResetAllLimits
    \/ \E t \in ErrInstants : AdvanceTo(t)

SpecErr == InitErr /\ [][NextErr]_vars

\* ------------------------------------------------ the streaming response
\* handle_streaming_request and its generator generate_stream_response, step
\* by step, for handlers that have been given a provider and dispatch in
\* streaming mode (passthrough=True, as handle_post_request always calls it).

\* what response.aiter_bytes() can deliver: two data chunks and a chunk that
\* contains `data: [DONE]`
Chunks == {"B1", "B2", "DONE"}

\* the bodies an upstream streams: any sequence of at most MaxChunks chunks
ChunkSeqs == UNION { [1..n -> Chunks] : n \in 0..MaxChunks }

\* what `await response.aread()` returns for an error answer: a JSON object,
\* another JSON value, text that is not JSON, bytes that are not UTF-8
ErrorBodies == {"dict", "json", "text", "bytes"}

\* json.loads(error_content) and its `except json.JSONDecodeError` produce an
\* error_detail; bytes that are not UTF-8 make json.loads raise
\* UnicodeDecodeError, which that except clause does not catch
Decodes(k) == k # "bytes"

\* a passthrough that stops at the chunk containing `data: [DONE]`
YieldUntilDone(delivered, chunk) ==
    IF chunk = "DONE" THEN delivered ELSE Append(delivered, chunk)

\* `yield chunk` in the passthrough loop: the chunk as received
Yield(delivered, chunk) == Append(delivered, chunk)

\* both handlers have been given a provider at minute 0 and are about to
\* dispatch: request 1 on p1, request 2 on p2
InitStream ==
    /\ now = 0
    /\ API_PROVIDER = ("p1" :> ("rpm" :> 1)) @@ ("p2" :> FallbackLimits)
    /\ counters = [p \in Providers |->
                     [rpm |-> << << 0, 1 >> >>, tpm |-> << << 0, 1 >> >>, rpd |-> 1]]
    /\ error_counters = [p \in {} |-> << >>]
    /\ loop = 0
    /\ arrived = 2
    /\ reason = ""
    /\ pc = [r \in Requests |-> "dispatch"]
    /\ req = [r \in Requests |-> [model |-> "A", token_count |-> 1]]
    /\ model = [r \in Requests |-> "A"]
    /\ idx = [r \in Requests |-> r]
    /\ api_provider = [r \in Requests |-> Binding("A", r).provider]
    /\ status = 0
    /\ committed = [p \in Providers |-> << << 0, 1 >> >>]
    /\ committed_today = [p \in Providers |-> 1]
    /\ recorded = [p \in Providers |-> << >>]
    /\ stream = [r \in Requests |-> NoStream]
    /\ headers = [r \in Requests |-> NoHeaders]

\* the generator of r runs to its next await or yield and releases the loop
StreamStep(r, l, s) ==
    /\ pc' = [pc EXCEPT ![r] = l]
    /\ stream' = [stream EXCEPT ![r] = s]
    /\ loop' = 0
    /\ UNCHANGED << now, gov, arrived, reason, status, req, model, idx,
                    api_provider, headers >>

\* the generator of r has ended: the response is complete and the handler's
\* locals are gone; the client has had the status code of the
\* StreamingResponse
StreamDone(r, s) ==
    /\ stream' = [stream EXCEPT ![r] = s]
    /\ Answer(r, s.client_status)
    /\ UNCHANGED << now, arrived, reason, headers >>

\* an except clause that ends the stream without a chunk of its own
ExceptedSilent(s) ==
    [s EXCEPT !.response_status = 500, !.outcome = "exception"]

\* `except Exception as e`: response_status.set(500) and one more chunk,
\* json.dumps({"error": str(e)})
Excepted(s) ==
    [s EXCEPT !.response_status = 500,
              !.delivered = Append(@, "exception"),
              !.outcome = "exception"]

\* handle_streaming_request: the ContextVar is created with default 200 and
\* the StreamingResponse is returned with status_code=response_status.get(),
\* before the generator has run
StreamOpen(r) ==
    /\ pc[r] = "dispatch"
    /\ CanRun(r)
    /\ StreamStep(r, "conn",
          [NoStream EXCEPT !.response_status = StreamingStatus,
                           !.client_status = StreamingStatus])

\* client.stream(...) returns the upstream's answer with status up, which
\* will stream the chunks of body: response_status.set(response.status_code)
UpstreamAnswers(r, up, body) ==
    /\ pc[r] = "conn"
    /\ CanRun(r)
    /\ up >= 400 => body = << >>
    /\ StreamStep(r, IF up >= 400 THEN "aread" ELSE "iter",
          [stream[r] EXCEPT !.response_status = up, !.up_status = up,
                            !.body = body, !.pending = body])

\* client.stream(...) raises (connection refused, timeout): the except clause
ConnectFails(r) ==
    /\ pc[r] = "conn"
    /\ CanRun(r)
    /\ StreamDone(r, Excepted(stream[r]))
    /\ UNCHANGED gov

\* the branch for status >= 400 with the error body k: the error is recorded
\* and the envelope is the only chunk, or json.loads raises and the except
\* clause of the generator takes over before increment_error is reached
ErrorBody(r, k) ==
    /\ pc[r] = "aread"
    /\ CanRun(r)
    /\ IF Decodes(k)
       THEN /\ error_counters' = increment_error(error_counters, api_provider[r], now)
            /\ recorded' = [recorded EXCEPT ![api_provider[r]] = Append(@, now)]
            /\ StreamDone(r, [stream[r] EXCEPT !.delivered = Append(@, "envelope"),
                                               !.outcome = "upstream_error"])
            /\ UNCHANGED << API_PROVIDER, counters, committed, committed_today >>
       ELSE /\ StreamDone(r, Excepted(stream[r]))
            /\ UNCHANGED gov

\* `await response.aread()` raises (the connection breaks while the error
\* body is read): the except clause
ErrorBodyFails(r) ==
    /\ pc[r] = "aread"
    /\ CanRun(r)
    /\ StreamDone(r, Excepted(stream[r]))
    /\ UNCHANGED gov

\* one turn of `async for chunk in response.aiter_bytes(): yield chunk`
Forward(r) ==
    /\ pc[r] = "iter"
    /\ CanRun(r)
    /\ stream[r].pending # << >>
    /\ StreamStep(r, "iter",
          [stream[r] EXCEPT !.delivered = Yield(@, Head(stream[r].pending)),
                            !.pending = Tail(@)])

\* aiter_bytes() is exhausted: log_interaction and return
StreamFinish(r) ==
    /\ pc[r] = "iter"
    /\ CanRun(r)
    /\ stream[r].pending = << >>
    /\ StreamDone(r, [stream[r] EXCEPT !.outcome = "done"])
    /\ UNCHANGED gov

\* aiter_bytes() raises (the connection breaks mid-stream): the except clause
StreamAbort(r) ==
    /\ pc[r] = "iter"
    /\ CanRun(r)
    /\ StreamDone(r, Excepted(stream[r]))
    /\ UNCHANGED gov

NextStream ==
    \/ \E r \in Requests : StreamOpen(r)
    \/ \E r \in Requests, up \in UpstreamStatuses, body \in ChunkSeqs :
          UpstreamAnswers(r, up, body)
    \/ \E r \in Requests : ConnectFails(r)
    \/ \E r \in Requests, k \in ErrorBodies : ErrorBody(r, k)
    \/ \E r \in Requests : ErrorBodyFails(r)
    \/ \E r \in Requests : Forward(r)
    \/ \E r \in Requests : StreamFinish(r)
    \/ \E r \in Requests : StreamAbort(r)
    \/ CleanupErrorCounters
    \/ \E d \in TickSteps : Tick(d)

SpecStream == InitStream /\ [][NextStream]_vars

\* ------------------------------------------- the governor called directly
\* check_limit and increment called on a fresh RateLimiter, as
\* TestRateLimiter does, with the limits and token counts of test_tpm_limit.

\* limits = {"tpm": 500}
TestLimits == ("tpm" :> 500)

\* the token counts test_tpm_limit passes
TestTokens == {100, 250, 300}

\* setup_method: a fresh RateLimiter
InitTpm ==
    /\ now = 0
    /\ API_PROVIDER = ("p1" :> TestLimits) @@ ("p2" :> FallbackLimits)
    /\ counters = [p \in {} |-> EmptyCounter]
    /\ error_counters = [p \in {} |-> << >>]
    /\ loop = 0
    /\ arrived = 0
    /\ reason = ""
    /\ pc = [r \in Requests |-> "idle"]
    /\ req = [r \in Requests |-> NoBody]
    /\ model = [r \in Requests |-> ""]
    /\ idx = [r \in Requests |-> 0]
    /\ api_provider = [r \in Requests |-> ""]
    /\ status = 0
    /\ committed = [p \in Providers |-> << >>]
    /\ committed_today = [p \in Providers |-> 0]
    /\ recorded = [p \in Providers |-> << >>]
    /\ stream = [r \in Requests |-> NoStream]
    /\ headers = [r \in Requests |-> NoHeaders]

\* result, reason = rate_limiter.check_limit(api_provider, limits, tok); the
\* token count passed is kept in req[1]
TpmCheck(tok) ==
    /\ LET res == check_limit(counters, "p1", API_PROVIDER["p1"], tok, now)
       IN  /\ counters' = res.counters
           /\ reason' = res.reason
    /\ req' = [req EXCEPT ![1] = [model |-> "", token_count |-> tok]]
    /\ UNCHANGED << now, API_PROVIDER, error_counters, history, loop, arrived,
                    status, pc, model, idx, api_provider, stream, headers >>

\* rate_limiter.increment(api_provider, tok); arrived counts the calls
TpmIncrement(tok) ==
    /\ "p1" \in DOMAIN counters
    /\ arrived < MaxReq
    /\ arrived' = arrived + 1
    /\ counters' = increment(counters, "p1", tok, now)
    /\ committed' = [committed EXCEPT !["p1"] = Append(@, << now, tok >>)]
    /\ committed_today' = [committed_today EXCEPT !["p1"] = @ + 1]
    /\ UNCHANGED << now, API_PROVIDER, error_counters, recorded, loop, reason,
                    status, locals >>

NextTpm ==
    \/ \E tok \in TestTokens : TpmCheck(tok)
    \/ \E tok \in TestTokens : TpmIncrement(tok)
    \/ \E d \in TickSteps : Tick(d)

SpecTpm == InitTpm /\ [][NextTpm]_vars

\* ------------------------------------------------- the outbound headers
\* handle_post_request's request_headers, from request.headers to the headers
\* argument of the upstream call, for handlers that have been given a
\* provider.

\* the names of the inbound headers; request.headers has them in lower case
HeaderNames ==
    {"host", "content-length", "accept-encoding", "authorization", "x-request-id"}

\* the value the client sends under each name
InboundValue(n) ==
    CASE n = "host" -> "x"
      [] n = "content-length" -> "7"
      [] n = "accept-encoding" -> "gzip"
      [] n = "authorization" -> "Bearer client-key"
      [] OTHER -> "1"

\* request.headers: any subset of the names
InboundHeaders == { [n \in S |-> InboundValue(n)] : S \in SUBSET HeaderNames }

\* API_PROVIDER[api_provider]['api_key']: empty or a key
ApiKeys == {"", "upstream-key"}

\* f"Bearer {key}"
Bearer(key) == IF key = "upstream-key" THEN "Bearer upstream-key" ELSE "Bearer"

\* key.lower() on the names in use
Lower(n) ==
    CASE n = "Authorization" -> "authorization"
      [] n = "Content-Type" -> "content-type"
      [] OTHER -> n

\* a pop that removes nothing
DictPopNever(h, n) == h

\* request_headers.pop(n, None)
DictPop(h, n) == [k \in DOMAIN h \ {n} |-> h[k]]

\* request_headers[n] = v
DictSet(h, n, v) == [k \in DOMAIN h \cup {n} |-> IF k = n THEN v ELSE h[k]]

\* {key: value for key, value in request.headers.items()
\*  if key.lower() not in ["host", "content-length"]}
Filtered(inbound) ==
    [k \in { n \in DOMAIN inbound : Lower(n) \notin {"host", "content-length"} }
        |-> inbound[k]]

\* the rewriting after the selection: Authorization replaced when the
\* provider has a key, accept-encoding removed, Content-Type forced
Rewritten(h, key) ==
    LET h1 == IF key # ""
              THEN DictSet(DictPop(h, "authorization"), "Authorization", Bearer(key))
              ELSE h
        h2 == DictPop(h1, "accept-encoding")
    IN  DictSet(h2, "Content-Type", "application/json")

\* both handlers have been given a provider at minute 0, request 1 on p1 and
\* request 2 on p2; each has read some inbound headers and its provider has
\* some api_key
InitHdr ==
    /\ now = 0
    /\ API_PROVIDER = ("p1" :> ("rpm" :> 1)) @@ ("p2" :> FallbackLimits)
    /\ counters = [p \in Providers |->
                     [rpm |-> << << 0, 1 >> >>, tpm |-> << << 0, 1 >> >>, rpd |-> 1]]
    /\ error_counters = [p \in {} |-> << >>]
    /\ loop = 0
    /\ arrived = 2
    /\ reason = ""
    /\ pc = [r \in Requests |-> "dispatch"]
    /\ req = [r \in Requests |-> [model |-> "A", token_count |-> 1]]
    /\ model = [r \in Requests |-> "A"]
    /\ idx = [r \in Requests |-> r]
    /\ api_provider = [r \in Requests |-> Binding("A", r).provider]
    /\ status = 0
    /\ committed = [p \in Providers |-> << << 0, 1 >> >>]
    /\ committed_today = [p \in Providers |-> 1]
    /\ recorded = [p \in Providers |-> << >>]
    /\ stream = [r \in Requests |-> NoStream]
    /\ headers \in [Requests ->
          { [NoHeaders EXCEPT !.inbound = h, !.api_key = k] :
                h \in InboundHeaders, k \in ApiKeys }]

\* the handler of r finishes request_headers and makes its upstream call with
\* them; the upstream answers with status up
SendHeaders(r, up) ==
    /\ pc[r] = "dispatch"
    /\ CanRun(r)
    /\ headers' = [headers EXCEPT ![r] =
          [@ EXCEPT !.outbound = Rewritten(Filtered(headers[r].inbound),
                                           headers[r].api_key),
                    !.sent = TRUE]]
    /\ Answer(r, up)
    /\ UNCHANGED << now, stream, gov, arrived, reason >>

NextHdr ==
    \/ \E r \in Requests, up \in UpstreamStatuses : SendHeaders(r, up)
    \/ \E d \in TickSteps : Tick(d)

SpecHdr == InitHdr /\ [][NextHdr]_vars

\* ------------------------------------------- selection during a penalty
\* The selection and the streamed upstream errors over the instants around
\* the end of the first ten minutes of a penalty, without reset_all_limits.

\* the instants, in minutes, at which the clock is read
PenInstants == {0, 9, 10, 11}

NextPen ==
    \/ \E r \in Requests, b \in Bodies : Select(r, b)
    \/ \E r \in Requests : ErrorCheck(r)
    \/ \E r \in Requests : CheckLimit(r)
    \/ \E r \in Requests : Increment(r)
    \/ \E r \in Requests : StreamUpstreamError(r)
    \/ \E r \in Requests : StreamEnd(r)
    \/ ResetDailyCounts
    \/ CleanupErrorCounters
    \/ \E t \in PenInstants : AdvanceTo(t)

SpecPen == Init /\ [][NextPen]_vars

\* ------------------------------------------------------------- the claims
\* the positions of a handler that is inside get_api_provider
InSelection == {"err", "chk", "inc"}

\* the entries of a window (or of the history) not older than 60 seconds
Live(q, t) == SelectSeq(q, LAMBDA e : t - e[1] <= WindowMinutes)

\* the window of provider p as it stands, empty when p has no entry yet
WindowOf(cs, p) == IF p \in DOMAIN cs THEN cs[p] ELSE EmptyCounter

\* the limits of p are exactly the one named k
OnlyLimit(p, k) == DOMAIN API_PROVIDER[p] = {k}

\* a step in which request r returns from check_limit
CheckLimitStep(r) == pc[r] = "chk" /\ pc'[r] # "chk"

\* C1: two selections never interleave: while one request is between its
\* is_error_limited, its accepting check_limit and the increment that follows,
\* no other request is inside get_api_provider; and under rpm = K, as long as
\* nothing committed since the last reset has left the 60-second window, at
\* most K requests have been committed to the provider.
C1_AdmitCommitAtomic ==
    /\ \A r1, r2 \in Requests :
          r1 # r2 => ~(pc[r1] \in InSelection /\ pc[r2] \in InSelection)
    /\ \A p \in Providers :
          ( /\ "rpm" \in DOMAIN API_PROVIDER[p]
            /\ Live(committed[p], now) = committed[p] )
          => Len(committed[p]) <= API_PROVIDER[p]["rpm"]

\* C1 witness: a provider with rpm = K holds K committed requests, all inside
\* the window, while a further request is inside get_api_provider at it.
C1_Witness ==
    \E r \in Requests :
        /\ pc[r] = "chk"
        /\ "rpm" \in DOMAIN API_PROVIDER[Candidate(r)]
        /\ committed[Candidate(r)] # << >>
        /\ Live(committed[Candidate(r)], now) = committed[Candidate(r)]
        /\ Len(committed[Candidate(r)]) = API_PROVIDER[Candidate(r)]["rpm"]
        /\ \E q \in Requests : q # r /\ pc[q] = "dispatch"

\* C2: with rpm = K the only limit of a provider, a check_limit on it accepts
\* exactly when fewer than K entries of its rpm window are at most 60 seconds
\* old, and a rejection carries the reason "RPM limit exceeded".
C2_RpmCeiling ==
    [][ \A r \in Requests :
          (CheckLimitStep(r) /\ OnlyLimit(Candidate(r), "rpm"))
          => LET p == Candidate(r)
                 n == Cardinality({ i \in DOMAIN WindowOf(counters, p).rpm :
                        now - WindowOf(counters, p).rpm[i][1] <= WindowMinutes })
             IN  /\ (pc'[r] = "inc") <=> (n < API_PROVIDER[p]["rpm"])
                 /\ (pc'[r] # "inc") => reason' = "RPM limit exceeded"
      ]_vars

\* C2 witness: the (K+1)-th check_limit within the window has been rejected
C2_Witness ==
    \E p \in Providers :
        /\ OnlyLimit(p, "rpm")
        /\ reason = "RPM limit exceeded"
        /\ p \in DOMAIN counters
        /\ Len(Live(counters[p].rpm, now)) = API_PROVIDER[p]["rpm"]
        /\ Len(committed[p]) = API_PROVIDER[p]["rpm"]

\* the tokens committed to p by increment within the last 60 seconds
CommittedTokens(p) == SumSecond(Live(committed[p], now))

C4_TprCeiling ==
    \A p \in Providers :
        "tpr" \in DOMAIN API_PROVIDER[p] =>
            /\ \A tok \in Tokens :
                  tok > API_PROVIDER[p]["tpr"] =>
                     ~check_limit(counters, p, API_PROVIDER[p], tok, now).allowed
            /\ \A r \in Requests :
                  (pc[r] \in {"inc", "dispatch"} /\ Candidate(r) = p)
                     => req[r].token_count <= API_PROVIDER[p]["tpr"]
            /\ \A i \in DOMAIN committed[p] :
                  committed[p][i][2] <= API_PROVIDER[p]["tpr"]

\* C4 witness: a request above tpr was rejected by the first provider for that
\* reason, with room left in every other limit, and goes on to the second
C4_Witness ==
    \E r \in Requests :
        /\ pc[r] = "err" /\ idx[r] = 2
        /\ "tpr" \in DOMAIN API_PROVIDER[Binding(model[r], 1).provider]
        /\ req[r].token_count > API_PROVIDER[Binding(model[r], 1).provider]["tpr"]
        /\ reason = "Token per request limit exceeded"

\* C5: with rpd = D configured for a provider, check_limit rejects whenever the
\* daily count has reached D, the daily count never exceeds D, and at most D
\* requests are committed to the provider since the last reset of the daily
\* count.
C5_RpdCeiling ==
    \A p \in Providers :
        "rpd" \in DOMAIN API_PROVIDER[p] =>
            /\ committed_today[p] <= API_PROVIDER[p]["rpd"]
            /\ WindowOf(counters, p).rpd = committed_today[p]
            /\ WindowOf(counters, p).rpd >= API_PROVIDER[p]["rpd"] =>
                  \A tok \in Tokens :
                     ~check_limit(counters, p, API_PROVIDER[p], tok, now).allowed

\* C5 witness: the daily count stands at D with both windows empty again, and
\* check_limit has rejected a further request for the daily limit
C5_Witness ==
    \E p \in Providers :
        /\ "rpd" \in DOMAIN API_PROVIDER[p]
        /\ committed_today[p] = API_PROVIDER[p]["rpd"]
        /\ p \in DOMAIN counters /\ counters[p].rpm = << >>
        /\ reason = "RPD limit exceeded"

C7_WindowsMatchCommits ==
    \A p \in Providers :
        (committed[p] # << >> /\ Live(committed[p], now) = committed[p]) =>
            /\ p \in DOMAIN counters
            /\ Len(counters[p].rpm) = Len(committed[p])
            /\ SumSecond(counters[p].tpm) = SumSecond(committed[p])
            /\ get_usage_stats(counters, now)[p].rpm = Len(committed[p])
            /\ get_usage_stats(counters, now)[p].tpm = SumSecond(committed[p])

\* C7 witness: two increments on one provider at different instants of one
\* 60-second span, with token counts that differ
C7_Witness ==
    \E p \in Providers :
        /\ Len(committed[p]) = 2
        /\ Live(committed[p], now) = committed[p]
        /\ committed[p][1][1] < committed[p][2][1]
        /\ committed[p][1][2] # committed[p][2][2]

\* the ledger of p as it stands, empty when p has none
LedgerOf(p) ==
    IF p \in DOMAIN error_counters THEN error_counters[p] ELSE << >>

\* the events of ledger l that remain at time t once those 24 hours old and
\* older are dropped
Remaining(l, t) == { i \in DOMAIN l : t - l[i][1] < 1440 }

\* what is_error_limited(p) reports at time t on the ledgers ec
LimitedAt(ec, p, t) == is_error_limited(ec, p, t).limited

\* what is_error_limited(p) reports now
Limited(p) == LimitedAt(error_counters, p, now)

PenaltyEnd(rec) == rec[Len(rec)] + Min(10 * Len(rec), 1440)

\* C9: after k increment_error(p), the last at t_last, p is reported not
\* limited at every instant from t_last + min(10k, 1440) on, and a provider
\* reported not limited stays so until the next increment_error(p).
C9_PenaltyEnds ==
    [][ \A p \in Providers :
          /\ (recorded'[p] # << >> /\ now' >= PenaltyEnd(recorded'[p]))
                => ~LimitedAt(error_counters', p, now')
          /\ (~Limited(p) /\ recorded'[p] = recorded[p])
                => ~LimitedAt(error_counters', p, now')
      ]_vars

\* C9 witness: two errors recorded for p at different instants, their events
\* still in the ledger, and the clock at the end of the 20 minutes of penalty
C9_Witness ==
    \E p \in Providers :
        /\ Len(recorded[p]) = 2
        /\ recorded[p][1] < recorded[p][2]
        /\ Len(LedgerOf(p)) = 2
        /\ now = PenaltyEnd(recorded[p])
        /\ ~Limited(p)

\* the reasons check_limit returns
CheckLimitReasons ==
    { "", "RPM limit exceeded", "TPM limit exceeded",
      "Token per request limit exceeded", "RPD limit exceeded" }

\* C10 as stated: check_limit rejects a provider that is reported limited by
\* its errors, whatever the token count, with an "error_limited" reason.
C10_CheckLimitRejectsPenalised ==
    \A p \in Providers : \A tok \in Tokens :
        Limited(p) =>
            LET res == check_limit(counters, p, API_PROVIDER[p], tok, now)
            IN  ~res.allowed /\ res.reason \notin CheckLimitReasons

\* C10 as the code has it: the penalty is looked at by get_api_provider, which
\* calls is_error_limited before check_limit and passes over a provider that is
\* limited. check_limit and increment therefore run only for a provider that
\* is not reported limited, and check_limit, which does not read the error
\* ledger, gives no reason other than its four limits.
C10_SelectorSkipsPenalised ==
    /\ \A r \in Requests :
          pc[r] \in {"chk", "inc"} => ~Limited(Candidate(r))
    /\ reason \in CheckLimitReasons
    /\ \A p \in Providers : \A tok \in Tokens :
          check_limit(counters, p, API_PROVIDER[p], tok, now).reason
             \in CheckLimitReasons

\* C10 witness: a request has been passed on to the second provider because
\* the first is in penalty, although check_limit would have accepted it there
C10_Witness ==
    \E r \in Requests :
        /\ pc[r] = "chk" /\ idx[r] = 2
        /\ Limited(Binding(model[r], 1).provider)
        /\ LET p == Binding(model[r], 1).provider
           IN  check_limit(counters, p, API_PROVIDER[p],
                           req[r].token_count, now).allowed

\* a step of the handler of r that is past `await request.json()`
Moved(r) == pc'[r] # pc[r] \/ idx'[r] # idx[r]

\* the counters of every provider other than p are as they were
OthersUntouched(p) ==
    \A q \in Providers \ {p} :
        /\ WindowOf(counters', q) = WindowOf(counters, q)
        /\ (q \in DOMAIN counters' <=> q \in DOMAIN counters)
        /\ committed'[q] = committed[q]
        /\ committed_today'[q] = committed_today[q]

\* C11: get_api_provider passes over a binding whose provider is error-limited
\* without touching any counter, goes on to check_limit at a binding whose
\* provider is not limited, and its check_limit and increment change the
\* counters of the provider of the binding they are at and of no other: with
\* p1 limited and p2 within its limits, p2 is returned and only p2's windows
\* and daily count change.
C11_FailoverTouchesOnlyP2 ==
    [][ \A r \in Requests :
          /\ (pc[r] = "err" /\ Moved(r) /\ Limited(Candidate(r)))
                => /\ counters' = counters
                   /\ committed' = committed
                   /\ committed_today' = committed_today
                   /\ pc'[r] \in {"err", "idle"}
                   /\ pc'[r] = "err" => idx'[r] > idx[r]
                   /\ pc'[r] = "idle" => status' = 429
          /\ (pc[r] = "err" /\ Moved(r) /\ ~Limited(Candidate(r)))
                => pc'[r] = "chk" /\ idx'[r] = idx[r]
          /\ (pc[r] = "chk" /\ Moved(r))
                => /\ OthersUntouched(Candidate(r))
                   /\ check_limit(counters, Candidate(r), API_PROVIDER[Candidate(r)],
                                  req[r].token_count, now).allowed
                         => pc'[r] = "inc" /\ idx'[r] = idx[r]
          /\ (pc[r] = "inc" /\ Moved(r))
                => /\ OthersUntouched(Candidate(r))
                   /\ pc'[r] = "dispatch"
                   /\ api_provider'[r] = Candidate(r)
                   /\ committed'[Candidate(r)] =
                         Append(committed[Candidate(r)], << now, req[r].token_count >>)
      ]_vars

\* C11 witness: a request for the model bound to [p1, p2] has been given p2
\* while p1 is error-limited; p1's windows hold the one request committed to it
\* before its error, p2's the request just selected
C11_Witness ==
    \E r \in Requests :
        /\ pc[r] = "dispatch" /\ model[r] = "A"
        /\ api_provider[r] = "p2"
        /\ Limited("p1")
        /\ Len(committed["p1"]) = 1 /\ Len(committed["p2"]) = 1
        /\ "p1" \in DOMAIN counters /\ Len(counters["p1"].rpm) = 1
        /\ counters["p1"].rpd = 1

\* the step in which the handler of r receives the body of its request
Received(r) ==
    /\ arrived' # arrived
    /\ pc[r] = "idle"
    /\ \A q \in Requests : q < r => pc[q] # "idle"

\* check_limit would accept request r at the binding it is at
AcceptedHere(r) ==
    check_limit(counters, Candidate(r), API_PROVIDER[Candidate(r)],
                req[r].token_count, now).allowed

\* the bindings of model m strictly between positions i and j are disabled
DisabledBetween(m, i, j) ==
    \A k \in (i + 1)..(j - 1) : ~Binding(m, k).enable

\* C12: get_api_provider goes through the bindings of a known model in their
\* order. It starts at the first enabled one; it leaves a binding for the next
\* enabled one only when the provider is error-limited or check_limit rejects,
\* passing over disabled bindings only; it calls check_limit only for a
\* provider that is not limited, increments only after check_limit accepted,
\* and returns the provider of the binding it incremented. So what it returns
\* is enabled and is the first binding that met the three conditions when it
\* was examined.
C12_FirstAdmittingBinding ==
    [][ \A r \in Requests :
          /\ (Received(r) /\ pc'[r] = "err")
                => /\ model'[r] \in DOMAIN MODEL_CONFIG
                   /\ Binding(model'[r], idx'[r]).enable
                   /\ DisabledBetween(model'[r], 0, idx'[r])
          /\ (Moved(r) /\ pc[r] \in {"err", "chk"} /\ idx'[r] # idx[r]
                 /\ pc'[r] = "err")
                => /\ pc[r] = "err" => Limited(Candidate(r))
                   /\ pc[r] = "chk" => ~AcceptedHere(r)
                   /\ idx'[r] > idx[r]
                   /\ model'[r] = model[r]
                   /\ Binding(model[r], idx'[r]).enable
                   /\ DisabledBetween(model[r], idx[r], idx'[r])
          /\ (pc'[r] = "chk" /\ pc[r] # "chk")
                => pc[r] = "err" /\ ~Limited(Candidate(r)) /\ idx'[r] = idx[r]
          /\ (pc'[r] = "inc" /\ pc[r] # "inc")
                => pc[r] = "chk" /\ AcceptedHere(r) /\ idx'[r] = idx[r]
          /\ (pc'[r] = "dispatch" /\ pc[r] # "dispatch")
                => /\ pc[r] = "inc" /\ idx'[r] = idx[r] /\ model'[r] = model[r]
                   /\ Binding(model[r], idx[r]).enable
                   /\ api_provider'[r] = Binding(model[r], idx[r]).provider
      ]_vars

\* C12 witness: a request was given the second binding of a model whose
\* first binding is disabled, the provider of the first never touched, while
\* another request, for the model with two enabled bindings, is at its first
C12_Witness ==
    \E r, q \in Requests :
        /\ pc[r] = "dispatch" /\ model[r] = "B" /\ idx[r] = 2
        /\ api_provider[r] = "p2"
        /\ committed["p1"] = << >> /\ "p1" \notin DOMAIN counters
        /\ pc[q] = "err" /\ model[q] = "A" /\ idx[q] = 1

\* the handler of r ends its request in this step
Answered(r) == (Moved(r) \/ Received(r)) /\ pc'[r] = "idle"

\* C13 as stated: a request is answered 429 only when every binding of its
\* model failed, so that nothing was sent upstream for it.
C13_429OnlyWithoutDispatch ==
    [][ \A r \in Requests :
          (Answered(r) /\ status' = 429) => pc[r] # "dispatch"
      ]_vars

\* C13 as the code has it: for a known, explicitly named model the handler
\* ends inside get_api_provider exactly when the binding it is at fails (its
\* provider is error-limited or check_limit rejects) and no enabled binding
\* follows, or when no binding is enabled at all; the answer is then 429, no
\* provider was selected and nothing was committed. A 429 that ends a request
\* after its dispatch is the status of the upstream, forwarded in buffered mode.
C13_NoCapacityIs429 ==
    [][ /\ \A r \in Requests :
              (Moved(r) /\ pc[r] \in {"err", "chk"} /\ req[r].model # "auto") =>
                 LET fails == IF pc[r] = "err" THEN Limited(Candidate(r))
                                               ELSE ~AcceptedHere(r)
                     last  == NextEnabled(model[r], idx[r] + 1) = 0
                 IN  /\ (fails /\ last) <=> pc'[r] = "idle"
                     /\ pc'[r] = "idle" =>
                           /\ status' = 429
                           /\ api_provider[r] = ""
                           /\ history' = history
        /\ \A r \in Requests : \A b \in SelBodies :
              (Select(r, b) /\ b.model \in DOMAIN MODEL_CONFIG) =>
                 /\ (NextEnabled(b.model, 1) = 0) <=> pc'[r] = "idle"
                 /\ pc'[r] = "idle" => status' = 429 /\ gov' = gov
        /\ \A r \in Requests :
              (Answered(r) /\ status' = 429 /\ pc[r] = "dispatch") =>
                 /\ api_provider[r] \in Providers
                 /\ error_counters' = error_counters
      ]_vars

\* C13 witness: the second of two requests has been answered 429 after
\* check_limit rejected it at the last enabled binding of its model; the one
\* request committed before is waiting for its upstream and is the only entry
\* of the provider's window
C13_Witness ==
    /\ status = 429
    /\ reason = "RPM limit exceeded"
    /\ arrived = 2
    /\ \E r \in Requests :
          /\ pc[r] = "dispatch" /\ api_provider[r] = "p2"
          /\ \A q \in Requests \ {r} : pc[q] = "idle"
    /\ Len(committed["p2"]) = 1
    /\ "p2" \in DOMAIN counters /\ Len(Live(counters["p2"].rpm, now)) = 1

\* C14: a request whose model is not a key of MODEL_CONFIG and is not "auto"
\* is answered 404 by the step that receives it, which leaves the counters,
\* the error ledgers and the configuration as they were; and a handler answers
\* 404 in no other step.
C14_UnknownModel404 ==
    [][ \A r \in Requests :
          /\ \A b \in Bodies :
                (Select(r, b) /\ b.model \notin DOMAIN MODEL_CONFIG
                    /\ b.model # "auto")
                => /\ status' = 404
                   /\ pc'[r] = "idle"
                   /\ counters' = counters
                   /\ error_counters' = error_counters
                   /\ gov' = gov
          /\ (Answered(r) /\ status' = 404)
                => \E b \in Bodies :
                      Select(r, b) /\ b.model \notin DOMAIN MODEL_CONFIG
      ]_vars

\* C14 witness: a request has been answered 404 while the governor holds the
\* usage and the error of an earlier request
C14_Witness ==
    /\ status = 404
    /\ arrived = 2
    /\ \A r \in Requests : pc[r] = "idle"
    /\ Len(committed["p1"]) = 1
    /\ "p1" \in DOMAIN counters /\ counters["p1"].rpd = 1
    /\ "p1" \in DOMAIN error_counters /\ Len(error_counters["p1"]) = 1

\* the models of MODEL_CONFIG that come after m in its order
LaterModels(m) ==
    { ModelOrder[j] : j \in { k \in DOMAIN ModelOrder :
          \E i \in DOMAIN ModelOrder : ModelOrder[i] = m /\ i < k } }

\* some binding of model m would admit a request of tok tokens on the ledgers
\* ec and counters cs at time t
WouldAdmit(m, tok, ec, cs, t) ==
    \E j \in DOMAIN MODEL_CONFIG[m] :
        LET p == Binding(m, j).provider
        IN  /\ Binding(m, j).enable
            /\ ~LimitedAt(ec, p, t)
            /\ check_limit(cs, p, API_PROVIDER[p], tok, t).allowed

\* C15: a request for "auto" fails only if no model admits: when it is
\* answered 429 inside the selection, no binding of any later model of
\* MODEL_CONFIG would have admitted it.
C15_AutoFallsThrough ==
    [][ \A r \in Requests :
          (Moved(r) /\ req[r].model = "auto" /\ pc[r] \in {"err", "chk"}
              /\ pc'[r] = "idle" /\ status' = 429)
          => \A m \in LaterModels(model[r]) :
                ~WouldAdmit(m, req[r].token_count, error_counters', counters', now')
      ]_vars

\* C16: in buffered mode, whenever the upstream answers with a status >= 400,
\* an error event is recorded in the ledger of the selected provider and the
\* client receives the upstream's status.
C16_BufferedErrorRecorded ==
    [][ \A r \in Requests : \A up \in UpstreamStatuses :
          (Buffered(r, up) /\ up >= 400)
          => /\ status' = up
             /\ recorded'[api_provider[r]] = Append(recorded[api_provider[r]], now)
             /\ error_counters'
                  = increment_error(error_counters, api_provider[r], now)
      ]_vars

\* C17: in streaming mode, when the upstream answers with a status >= 400,
\* the client receives exactly one body chunk, the JSON error envelope, and
\* increment_error is called exactly once, for the selected provider and for
\* no other: the step that ends such a response leaves the envelope as the
\* only chunk and one more recorded error for that provider alone.
C17_StreamErrorRecordedOnce ==
    [][ \A r \in Requests :
          (pc[r] = "aread" /\ pc'[r] = "idle")
          => /\ stream'[r].up_status >= 400
             /\ stream'[r].delivered = << "envelope" >>
             /\ recorded' = [recorded EXCEPT ![api_provider[r]] = Append(@, now)]
      ]_vars

\* C18: the status code the client receives for a streaming response
\* reflects the terminal state of the stream: the upstream's status when the
\* upstream answered >= 400, and 500 when an exception aborted the stream.
C18_StatusMirrorsTerminalState ==
    \A r \in Requests :
        /\ stream[r].outcome = "upstream_error"
              => stream[r].client_status = stream[r].up_status
        /\ stream[r].outcome = "exception"
              => stream[r].client_status = 500

\* C19: in streaming mode with upstream status < 400 and no exception, the
\* chunks delivered to the client are the chunks received from the upstream,
\* in order, at every moment of the stream, and the whole body when the
\* stream has ended, with or without a chunk containing `data: [DONE]`.
C19_PassthroughVerbatim ==
    \A r \in Requests :
        (stream[r].up_status \in 1..399 /\ stream[r].outcome # "exception")
        => /\ stream[r].delivered \o stream[r].pending = stream[r].body
           /\ stream[r].outcome = "done" => stream[r].delivered = stream[r].body

\* C19 witness: two streams have ended normally, one whose body has a chunk
\* after the one containing `data: [DONE]`, one whose body has no such chunk
\* and the same chunk twice; each client has had the whole body
C19_Witness ==
    /\ stream[1].outcome = "done" /\ stream[1].up_status = 200
    /\ stream[1].body = << "DONE", "B1" >>
    /\ stream[1].delivered = << "DONE", "B1" >>
    /\ stream[2].outcome = "done" /\ stream[2].up_status = 200
    /\ stream[2].body = << "B2", "B2" >>
    /\ stream[2].delivered = << "B2", "B2" >>

\* C20: reset_daily_counts sets the rpd count to 0 for every known provider
\* and leaves every provider's rpm window, tpm window and error ledger as
\* they were.
C20_ResetDailyOnlyRpd ==
    [][ ResetDailyCounts
          => /\ DOMAIN counters' = DOMAIN counters
             /\ \A p \in DOMAIN counters :
                    /\ counters'[p].rpd = 0
                    /\ counters'[p].rpm = counters[p].rpm
                    /\ counters'[p].tpm = counters[p].tpm
             /\ error_counters' = error_counters
      ]_vars

\* C20 witness: the daily count of p1 is 0 after a reset while its windows
\* still hold the request committed before the reset and its error ledger
\* the error recorded before it
C20_Witness ==
    /\ "p1" \in DOMAIN counters
    /\ counters["p1"].rpd = 0
    /\ committed_today["p1"] = 0
    /\ Len(committed["p1"]) = 1
    /\ counters["p1"].rpm = << << 0, 1 >> >>
    /\ counters["p1"].tpm = << committed["p1"][1] >>
    /\ "p1" \in DOMAIN error_counters /\ Len(error_counters["p1"]) = 1

\* C21 as stated: a provider's rpd count never decreases except at the
\* scheduled reset: a step that lowers it is a step of reset_daily_counts.
C21_RpdLoweredOnlyAtMidnight ==
    [][ \A p \in DOMAIN counters :
          (p \in DOMAIN counters' /\ counters'[p].rpd < counters[p].rpd)
          => ResetDailyCounts
      ]_vars

\* C21: a provider's rpd count is lowered only by reset_daily_counts and by
\* reset_all_limits, and then to 0; every other operation of the governor
\* and every other endpoint leaves it or raises it.
C21_RpdLoweredOnlyByResets ==
    [][ \A p \in DOMAIN counters :
          (p \in DOMAIN counters' /\ counters'[p].rpd < counters[p].rpd)
          => /\ ResetDailyCounts \/ ResetAllLimits
             /\ counters'[p].rpd = 0
      ]_vars

\* C21 witness: the first request was admitted on p1 and answered by the
\* upstream within the minute, and p1's entry is back to empty windows and a
\* day count of 0: reset_all_limits has lowered the count
C21_Witness ==
    /\ now = 0
    /\ arrived = 1
    /\ status = 200
    /\ \A r \in Requests : pc[r] = "idle"
    /\ API_PROVIDER["p1"] = ("rpm" :> 1)
    /\ "p1" \in DOMAIN counters
    /\ counters["p1"] = EmptyCounter
    /\ "p2" \notin DOMAIN counters

\* C22: after reset_all_limits, whatever usage and errors were recorded
\* before, get_usage_stats reports current rpm, tpm and rpd equal to 0 for
\* every provider it reports and is_error_limited reports not limited for
\* every provider.
C22_ResetAllClearsEverything ==
    [][ ResetAllLimits
          => /\ \A p \in DOMAIN counters' :
                    get_usage_stats(counters', now')[p]
                        = [rpm |-> 0, tpm |-> 0, rpd |-> 0]
             /\ DOMAIN get_usage_stats(counters', now') = DOMAIN counters
             /\ \A p \in Providers : ~LimitedAt(error_counters', p, now')
             /\ error_counters' = << >>
      ]_vars

\* C22 witness: a request of one token is in flight on p2, which it was given
\* because p1, whose tpm limit had room for it, was in penalty; since then
\* reset_all_limits has run: both providers have empty windows and a day
\* count of 0 and there is no error ledger
C22_Witness ==
    /\ now = 0
    /\ arrived = 2
    /\ API_PROVIDER["p1"] = ("tpm" :> 3)
    /\ \E r \in Requests :
          /\ pc[r] = "dispatch"
          /\ req[r].token_count = 1
          /\ api_provider[r] = "p2"
    /\ DOMAIN counters = {"p1", "p2"}
    /\ \A p \in Providers : counters[p] = EmptyCounter
    /\ DOMAIN error_counters = {}
    /\ \A p \in Providers : ~Limited(p)

\* the one upstream call of the handler of r: client.post of buffered mode or
\* client.stream of streaming mode, with any of their outcomes
Posts(r) ==
    \/ \E up \in UpstreamStatuses : Buffered(r, up)
    \/ BufferedException(r)
    \/ StreamUpstreamError(r)
    \/ StreamEnd(r)

\* C23: once a provider has been selected for a request, one upstream call is
\* made, to that provider; whatever its outcome the request is then over: no
\* other provider is tried, and the usage committed at selection stays. A
\* handler reaches the dispatch only by the increment on the provider it was
\* given, keeps that provider while it waits, and leaves the dispatch only by
\* its upstream call, which ends the request and changes no counter.
C23_OneDispatchNoRollback ==
    [][ \A r \in Requests :
          /\ (pc[r] # "dispatch" /\ pc'[r] = "dispatch")
                => /\ Increment(r)
                   /\ api_provider'[r] = Candidate(r)
          /\ (pc[r] = "dispatch" /\ pc'[r] = "dispatch")
                => api_provider'[r] = api_provider[r]
          /\ (pc[r] = "dispatch" /\ pc'[r] # "dispatch")
                => /\ Posts(r)
                   /\ pc'[r] = "idle"
                   /\ counters' = counters
                   /\ committed' = committed
                   /\ committed_today' = committed_today
                   /\ \A q \in Providers \ {api_provider[r]} :
                          recorded'[q] = recorded[q]
      ]_vars

\* C23 witness: the only request so far was given p1 and its upstream call
\* failed (status 500); the request is over, p1 still holds its usage and
\* p2 was never examined
C23_Witness ==
    /\ arrived = 1
    /\ status = 500
    /\ \A r \in Requests : pc[r] = "idle"
    /\ Len(committed["p1"]) = 1
    /\ committed_today["p1"] = 1
    /\ "p1" \in DOMAIN counters
    /\ Len(counters["p1"].rpm) = 1
    /\ counters["p1"].tpm = << committed["p1"][1] >>
    /\ counters["p1"].rpd = 1
    /\ "p2" \notin DOMAIN counters

\* C24: as test_tpm_limit asserts, under a tpm limit L a check_limit is
\* accepted as long as the tokens committed in the window do not exceed L,
\* even when its own token_count pushes the total over L; and the tokens of
\* an accepted check count against the budget without increment: with 300
\* committed and check_limit(250) accepted, check_limit(100) is rejected with
\* "TPM limit exceeded".
C24_TestTpmLimit ==
    [][ /\ \A tok \in TestTokens :
              (TpmCheck(tok) /\ CommittedTokens("p1") <= TestLimits["tpm"])
              => reason' = ""
        /\ (TpmCheck(100) /\ CommittedTokens("p1") = 300
               /\ req[1].token_count = 250 /\ reason = "")
              => reason' = "TPM limit exceeded"
      ]_vars

\* the names of the headers of h that are, case aside, the header n
Named(h, n) == { k \in DOMAIN h : Lower(k) = n }

\* C25: the outbound request never carries the inbound Host, Content-Length
\* or Accept-Encoding headers, and when the selected provider has an API key
\* its only Authorization header is `Bearer <provider key>`: the client's own
\* Authorization value is not forwarded to a provider that has a key.
C25_OutboundHeaders ==
    \A r \in Requests :
        headers[r].sent
        => LET h == headers[r].outbound
           IN  /\ Named(h, "host") = {}
               /\ Named(h, "content-length") = {}
               /\ Named(h, "accept-encoding") = {}
               /\ headers[r].api_key # ""
                    => /\ Cardinality(Named(h, "authorization")) = 1
                       /\ \A k \in Named(h, "authorization") :
                              h[k] = Bearer(headers[r].api_key)
               /\ \A k \in DOMAIN h \ Named(h, "authorization") :
                      k \in DOMAIN headers[r].inbound
                          => h[k] = headers[r].inbound[k]

\* C25 witness: a request that came with Host, Content-Length,
\* Accept-Encoding, the client's Authorization and one more header has been
\* sent to a provider that has a key
C25_Witness ==
    \E r \in Requests :
        /\ headers[r].sent
        /\ DOMAIN headers[r].inbound = HeaderNames
        /\ headers[r].inbound["authorization"] = "Bearer client-key"
        /\ headers[r].api_key = "upstream-key"
        /\ headers[r].outbound["Authorization"] = "Bearer upstream-key"
        /\ headers[r].outbound["x-request-id"] = "1"

\* the number of requests this step adds to the day count of p
Charged(p) == WindowOf(counters', p).rpd - WindowOf(counters, p).rpd

\* the number of entries this step adds to the rpm window of p
Booked(p) == Len(WindowOf(counters', p).rpm) - Len(WindowOf(counters, p).rpm)

\* C26 as stated: a request that is answered 404 or 429 has performed no
\* increment: it was given no provider.
C26_NoIncrementWhen404Or429 ==
    [][ \A r \in Requests :
          (Answered(r) /\ status' \in {404, 429}) => api_provider[r] = ""
      ]_vars

\* C26: every request performs at most one increment: a step of its handler
\* charges a provider only when it leaves get_api_provider with that provider
\* selected, and then once, on the provider of the binding of the model it
\* is routed to; a handler enters the dispatch only by that step and the
\* selection only when it receives a request; and a request that the
\* selection answers (404, 429) has charged nothing.
C26_OneIncrementPerRequest ==
    [][ \A r \in Requests :
          /\ (Moved(r) \/ Received(r))
                => \A p \in Providers :
                      IF pc[r] = "inc" /\ pc'[r] = "dispatch" /\ p = Candidate(r)
                      THEN /\ Charged(p) = 1
                           /\ Booked(p) = 1
                           /\ api_provider'[r] = p
                           /\ \E j \in DOMAIN MODEL_CONFIG[model[r]] :
                                  Binding(model[r], j).provider = p
                      ELSE Charged(p) = 0 /\ Booked(p) <= 0
          /\ (pc'[r] = "dispatch" /\ pc[r] # "dispatch") => pc[r] = "inc"
          /\ (pc'[r] \in InSelection /\ pc[r] \notin InSelection) => Received(r)
          /\ (Answered(r) /\ pc[r] # "dispatch")
                => /\ status' \in {404, 429}
                   /\ api_provider[r] = ""
      ]_vars

\* C26 witness: a request for "auto" has been given p1, the binding of the
\* first model, and is at the dispatch; p1 has been charged once and no other
\* provider has an entry
C26_Witness ==
    \E r \in Requests :
        /\ arrived = 1
        /\ req[r].model = "auto"
        /\ pc[r] = "dispatch"
        /\ model[r] = ModelOrder[1]
        /\ api_provider[r] = "p1"
        /\ DOMAIN counters = {"p1"}
        /\ counters["p1"].rpd = 1
        /\ Len(counters["p1"].rpm) = 1

\* the generator of r is ended by its except clause in this step
Excepts(r) == stream[r].outcome # "exception" /\ stream'[r].outcome = "exception"

\* C27: if an exception is raised in streaming mode after k >= 0 upstream
\* chunks have been forwarded, the client receives exactly those k chunks in
\* order followed by exactly one JSON error chunk as the last chunk, nothing
\* is emitted after it, and the governor's counters and error ledgers are
\* left unchanged by the exception.
C27_ExceptionAppendsOneChunk ==
    [][ \A r \in Requests :
          /\ Excepts(r)
                => LET k == Len(stream[r].delivered)
                   IN  /\ stream[r].delivered = SubSeq(stream[r].body, 1, k)
                       /\ stream'[r].delivered
                            = Append(SubSeq(stream[r].body, 1, k), "exception")
                       /\ pc'[r] = "idle"
                       /\ counters' = counters
                       /\ error_counters' = error_counters
                       /\ history' = history
          /\ stream[r].outcome = "exception" => stream'[r] = stream[r]
      ]_vars

\* C27 witness: the upstream of request 1 was to stream two chunks and the
\* stream broke after the first: the client has had that chunk and then the
\* error chunk; the stream of request 2 broke before any chunk
C27_Witness ==
    /\ stream[1].outcome = "exception"
    /\ stream[1].body = << "B1", "B2" >>
    /\ stream[1].delivered = << "B1", "exception" >>
    /\ stream[2].outcome = "exception"
    /\ stream[2].up_status = 200
    /\ stream[2].delivered = << "exception" >>
    /\ counters["p1"].rpd = 1 /\ counters["p2"].rpd = 1
    /\ DOMAIN error_counters = {}

\* C28 as stated: a request whose JSON body has no `model` field is answered
\* with HTTP 500 and changes no governor state.
C28_MissingModel500 ==
    [][ \A r \in Requests : \A b \in SelBodies :
          (Select(r, b) /\ b.model = "")
          => status' = 500 /\ gov' = gov
      ]_vars

\* C28: a request whose JSON body has no `model` field is handled as a
\* request for the model "": get_api_provider answers it 404 at its first
\* test, before any binding is examined, and no governor state changes.
C28_MissingModel404 ==
    [][ \A r \in Requests : \A b \in SelBodies :
          (Select(r, b) /\ b.model = "")
          => /\ status' = 404
             /\ pc'[r] = "idle"
             /\ api_provider'[r] = ""
             /\ gov' = gov
      ]_vars

\* C28 witness: while an earlier request is at the dispatch on p1, a request
\* without a model has been answered 404; p1 holds the usage of the first
\* request and nothing else has an entry
C28_Witness ==
    /\ status = 404
    /\ arrived = 2
    /\ \E r \in Requests : pc[r] = "dispatch" /\ api_provider[r] = "p1"
    /\ \E r \in Requests : pc[r] = "idle"
    /\ DOMAIN counters = {"p1"}
    /\ counters["p1"].rpd = 1
    /\ Len(committed["p1"]) = 1
    /\ committed["p2"] = << >>

\* C29: in every interleaving of the selections with reset_daily_counts,
\* cleanup_error_counters and reset_all_limits, each method one atomic step,
\* no step removes a provider's key from the counters, a handler that is
\* between an accepting check_limit and its increment has the entry of its
\* provider, and the increment goes through: the handler reaches the dispatch
\* and no 500 is answered.
C29_IncrementFindsEntry ==
    [][ /\ DOMAIN counters \subseteq DOMAIN counters'
        /\ \A r \in Requests :
              /\ pc[r] = "inc" => Candidate(r) \in DOMAIN counters
              /\ (pc[r] = "inc" /\ pc'[r] # "inc")
                    => /\ pc'[r] = "dispatch"
                       /\ api_provider'[r] = Candidate(r)
                       /\ counters'[Candidate(r)].rpd
                            = counters[Candidate(r)].rpd + 1
      ]_vars

\* C29 witness: a request is between its accepting check_limit and its
\* increment on p1 while reset_all_limits has emptied the entry of p1, which
\* an earlier request, still in flight on p1, had charged in this minute;
\* the key of p1 is still there
C29_Witness ==
    \E r, q \in Requests :
        /\ now = 0
        /\ pc[r] = "inc" /\ Candidate(r) = "p1"
        /\ pc[q] = "dispatch" /\ api_provider[q] = "p1"
        /\ "p1" \in DOMAIN counters
        /\ counters["p1"] = EmptyCounter
        /\ "rpm" \in DOMAIN API_PROVIDER["p1"]

\* instant t lies in the first ten minutes after the newest of the errors rec
InFloor(rec, t) == rec # << >> /\ t < rec[Len(rec)] + PenaltyPerError

\* C30: immediately after increment_error(p), is_error_limited(p) reports
\* limited, and without reset_all_limits it keeps reporting limited for at
\* least 10 minutes after p's newest error; a selection that examines p in
\* that interval passes it over and no request is committed to p in it; and
\* cleanup_error_counters changes the answer for no provider.
C30_PenaltyFloor ==
    [][ \A p \in Providers :
          /\ recorded'[p] # recorded[p] => LimitedAt(error_counters', p, now')
          /\ InFloor(recorded'[p], now') => LimitedAt(error_counters', p, now')
          /\ \A r \in Requests :
                /\ (pc[r] = "err" /\ Moved(r) /\ Candidate(r) = p
                       /\ InFloor(recorded[p], now))
                      => ~(pc'[r] = "chk" /\ idx'[r] = idx[r])
                /\ (pc[r] = "inc" /\ pc'[r] = "dispatch" /\ Candidate(r) = p)
                      => ~InFloor(recorded[p], now)
          /\ CleanupErrorCounters
                => LimitedAt(error_counters', p, now')
                     = LimitedAt(error_counters, p, now)
      ]_vars

\* C30 witness: nine minutes after the one error of p1 a request for model A
\* has been given p2, although check_limit would accept it on p1: p1 is still
\* reported limited
C30_Witness ==
    \E r \in Requests :
        /\ now = 9
        /\ recorded["p1"] = << 0 >>
        /\ Limited("p1")
        /\ pc[r] = "dispatch"
        /\ model[r] = "A"
        /\ api_provider[r] = "p2"
        /\ committed["p2"] = << << 9, req[r].token_count >> >>
        /\ check_limit(counters, "p1", API_PROVIDER["p1"],
                       req[r].token_count, now).allowed

====
